---- MODULE Spec2Model ----
(***************************************************************************)
(* Streaming playback / completion pipeline of the Android implementation  *)
(* of react-native-sherpa-onnx-offline-tts:                                *)
(*   AudioPlayer       the playback engine (queue, playback thread, timer) *)
(*   TTSManagerModule  the session coordinator (promises, playback ids)    *)
(* Three threads take steps: the native-module thread (the caller of the   *)
(* @ReactMethod functions), the playback thread started by                 *)
(* AudioPlayer.start, and the main looper that runs what mainHandler.post  *)
(* queues.  No lock orders them except synchronized(this) around the       *)
(* analysis buffers, so a method is a sequence of steps, one per access to *)
(* a field another thread uses, and the threads interleave step by step.   *)
(*                                                                         *)
(* Spec drives the module as an application does: initializeTTS is called  *)
(* when no player exists (once, or again after deinitialize).  PlayerSpec  *)
(* drives the public methods of one AudioPlayer directly.                  *)
(* StreamSpec is Spec over one engine lifetime with requests of up to two  *)
(* chunks; SaveSpec adds generateAndSave and its worker thread; SplitSpec  *)
(* runs splitText turn by turn over every short text (SplitFairSpec adds   *)
(* the fairness of the calling thread); WavSpec applies writeWavPCM16 to   *)
(* every short sample sequence.  PeakSpec is StreamSpec with chunks of any *)
(* length, RateSpec feeds one AudioPlayer audio of any sample rate, and    *)
(* ReinitSpec lets the application call initializeTTS twice in a row.      *)
(***************************************************************************)
EXTENDS Integers, Sequences, FiniteSets, TLC

\* ------------------------------------------------------------- bounds ---
MaxPlays  == 2   \* generateAndPlay / beginPlayback calls in one run
MaxChunks == 1   \* chunks splitText yields for one request
MaxInits  == 2   \* initializeTTS calls in one run
MaxStops  == 2   \* direct stopPlayer calls in one run (engine harness)
MaxSaves  == 1   \* generateAndSave calls in one run
MaxTextLen  == 5 \* characters of a text handed to splitText
MaxMaxWords == 3 \* largest maxWords handed to splitText
MaxChunkSamples == 3 \* samples of a synthesized chunk of any length
MaxSamples  == 3 \* samples handed to writeWavPCM16

VARIABLES
  \* AudioPlayer fields
  isRunning, sentCompletion, enqueueClosed, didSignalFinish, playbackId,
  pendingWrites, audioQueue, accumulationBuffer, volumesQueue, audioTrack,
  \* playbackThread: position, the chunk taken, the value read for += / -=
  thrPc, thrSamples, thrReg, thrTag, interrupted,
  \* the number of samples of the chunk accumulated last (samples.size)
  samplesSize,
  \* the sample rate handed to enqueueAudioData by a direct call (sr)
  sr,
  \* main looper: posted messages, position of the delegate callback
  mainQ, tickPosted, mainPc, mainP, mainTag,
  \* TTSManagerModule fields
  tts, realTimeAudioPlayer, playbackSeq, activePlaybackId, stopping,
  pendingPromise,
  \* native-module thread: position, operation, locals of generateAndPlay
  modPc, modOp, modPromise, modIdx, modN,
  \* history: promises, their settlements, sentinels posted, device writes
  promiseSeq, settled, session, sent, enqueued, closed, written,
  released, inits, stops, lastOp, repeated, lastCall,
  \* telemetry: a loudness value of the current request was delivered and
  \* its finished sentinel has not been delivered yet
  loud,
  \* generateAndSave: promises, worker threads, UI-queue posts, files
  saveSeq, saveSettled, savePc, saveIdx, saveN, uiQ, files,
  \* splitText: its arguments, the loop cursor and the chunks so far
  text, trimmedText, maxWords, currentIndex, sentences, splitPc,
  \* writeWavPCM16: its arguments, the PCM bytes, the bytes of the file
  floatSamples, sampleRate, channels, pcm, out, wavPc

playerVars == <<isRunning, sentCompletion, enqueueClosed, didSignalFinish,
                playbackId, pendingWrites, audioQueue, accumulationBuffer,
                volumesQueue, audioTrack>>
thrVars    == <<thrPc, thrSamples, thrReg, thrTag, interrupted>>
mainVars   == <<mainQ, tickPosted, mainPc, mainP, mainTag>>
mgrVars    == <<tts, realTimeAudioPlayer, playbackSeq, activePlaybackId,
                stopping, pendingPromise>>
modVars    == <<modPc, modOp, modPromise, modIdx, modN>>
histVars   == <<promiseSeq, lastCall, settled, session, sent, enqueued,
                closed, written, released, inits, stops, lastOp, repeated>>
saveVars   == <<saveSeq, saveSettled, savePc, saveIdx, saveN, uiQ, files>>
splitVars  == <<text, trimmedText, maxWords, currentIndex, sentences,
                splitPc>>
\* what the playback pipeline never touches
wavVars    == <<floatSamples, sampleRate, channels, pcm, out, wavPc>>
chunkVars  == <<samplesSize, sr>>
restVars   == <<saveVars, splitVars, wavVars, chunkVars>>
vars == <<playerVars, thrVars, mainVars, mgrVars, modVars, histVars, loud,
          saveVars, splitVars, wavVars, chunkVars>>

Promises == 1..MaxPlays
Sessions == 1..MaxPlays
Saves    == 1..MaxSaves
NoChunk  == <<0, 0>>
\* a null String? argument
Null     == <<"null">>

\* samples of one synthesized chunk (an input size) and of one analysis
\* window: samplesPerChunk, line 30, is sampleRate * channels * 200 / 1000
\* (4410 at 22050 Hz mono), scaled down here to two samples
ChunkSamples    == 2
samplesPerChunk == 2

\* ---------------------------------------------------------- helpers ---
\* Promise.resolve / Promise.reject on promise p (0 is a null reference)
Settle(p, how, tag) ==
  settled' = IF p = 0 THEN settled
             ELSE [settled EXCEPT ![p] = Append(@, [kind |-> how, tag |-> tag])]

\* mainHandler.post { delegate?.didUpdateVolume(-1f) }
PostSentinel(id, by) ==
  /\ mainQ' = Append(mainQ, [id |-> id, by |-> by])
  /\ sent' = [sent EXCEPT ![id][by] = @ + 1]

\* processAccumulatedSamples: windows sliced off a buffer of n samples
Windows(n) == n \div samplesPerChunk

\* the FloatArray of a chunk of n samples, each sample named after its chunk
\* and its position (samples.asList(), line 105)
asList(chunk, n) == [j \in 1..n |-> <<chunk[1], chunk[2], j>>]

\* processAccumulatedSamples, lines 121-130, on the buffer buf: the windows
\* sliced off the front one after the other, and what stays in the buffer.
\* A loudness value is computePeak of its window times scalingFactor (lines
\* 126-127); it is written here as the window it is computed from.
\* sliced_once is the function with an `if` in place of the `while` of line
\* 122.
sliced_once(buf) ==
  IF Len(buf) >= samplesPerChunk THEN <<SubSeq(buf, 1, samplesPerChunk)>>
  ELSE <<>>
sliced(buf) ==
  [i \in 1..Windows(Len(buf)) |->
     SubSeq(buf, (i - 1) * samplesPerChunk + 1, i * samplesPerChunk)]
remainder(buf) ==
  SubSeq(buf, Windows(Len(buf)) * samplesPerChunk + 1, Len(buf))

\* the completion condition of maybeSendCompletion (lines 151-156)
Finished ==
  /\ ~didSignalFinish
  /\ enqueueClosed
  /\ audioQueue = <<>>
  /\ pendingWrites = 0

\* the module and its (not yet created) player as constructed
Constructed ==
  /\ isRunning = FALSE /\ sentCompletion = FALSE /\ enqueueClosed = TRUE
  /\ didSignalFinish = FALSE /\ playbackId = 0 /\ pendingWrites = 0
  /\ audioQueue = <<>> /\ accumulationBuffer = <<>> /\ volumesQueue = <<>>
  /\ audioTrack = FALSE
  /\ thrPc = "none" /\ thrSamples = NoChunk /\ thrReg = 0 /\ thrTag = 0
  /\ interrupted = FALSE /\ samplesSize = 0 /\ sr = 0
  /\ mainQ = <<>> /\ tickPosted = 0 /\ mainPc = "idle" /\ mainP = 0 /\ mainTag = 0
  /\ tts = FALSE /\ realTimeAudioPlayer = FALSE /\ playbackSeq = 0
  /\ activePlaybackId = 0 /\ stopping = FALSE /\ pendingPromise = 0
  /\ modPc = "idle" /\ modOp = "none" /\ modPromise = 0 /\ modIdx = 0
  /\ modN = 0
  /\ promiseSeq = 0 /\ settled = [p \in Promises |-> <<>>]
  /\ session = [p \in Promises |-> 0] /\ sent = [s \in 0..MaxPlays |-> [end |-> 0, drain |-> 0, stop |-> 0]]
  /\ enqueued = [s \in Sessions |-> {}] /\ closed = [s \in Sessions |-> FALSE]
  /\ written = {} /\ released = 0 /\ inits = 0 /\ stops = 0
  /\ lastOp = "other" /\ repeated = FALSE
  /\ lastCall = [op |-> "none", text |-> <<>>, fileType |-> Null]
  /\ loud = FALSE

\* no generateAndSave has been called
NoSave ==
  /\ saveSeq = 0 /\ saveSettled = [q \in Saves |-> <<>>]
  /\ savePc = [q \in Saves |-> "none"] /\ saveIdx = [q \in Saves |-> 0]
  /\ saveN = [q \in Saves |-> 0] /\ uiQ = <<>> /\ files = 0

\* no splitText call is in progress
NoSplit ==
  /\ text = <<>> /\ trimmedText = <<>> /\ maxWords = 0
  /\ currentIndex = 0 /\ sentences = <<>> /\ splitPc = "none"

\* no writeWavPCM16 call is in progress
NoWav ==
  /\ floatSamples = <<>> /\ sampleRate = 0 /\ channels = 0
  /\ pcm = <<>> /\ out = <<>> /\ wavPc = "none"

Init == Constructed /\ NoSave /\ NoSplit /\ NoWav

\* -------------------------------------------------------- splitText ---
\* A text is a sequence of characters.  "fs" stands for a character such as
\* U+001C that Char.isWhitespace (used by trim) accepts and the regular
\* expression \s (used by split) does not match.
Alphabet   == {"a", "b", ".", ",", " ", "fs"}
TrimSpace  == {" ", "fs"}
RegexSpace == {" "}

RECURSIVE SeqsUpTo(_)
SeqsUpTo(n) ==
  IF n = 0 THEN {<<>>}
  ELSE LET shorter == SeqsUpTo(n - 1)
       IN shorter \cup {Append(t, c) : t \in {u \in shorter : Len(u) = n - 1},
                                       c \in Alphabet}
Texts == SeqsUpTo(MaxTextLen)

\* String.trim(): drop the leading and trailing whitespace characters
trim(t) ==
  LET keep == {i \in 1..Len(t) : t[i] \notin TrimSpace}
  IN IF keep = {} THEN <<>>
     ELSE SubSeq(t, CHOOSE i \in keep : \A j \in keep : i <= j,
                    CHOOSE i \in keep : \A j \in keep : i >= j)

\* String.split("\\s+".toRegex()): the pieces between the runs of \s,
\* empty pieces included
RECURSIVE SplitFrom(_, _, _, _)
SplitFrom(t, i, piece, inRun) ==
  IF i > Len(t) THEN <<piece>>
  ELSE IF t[i] \in RegexSpace
       THEN IF inRun THEN SplitFrom(t, i + 1, piece, TRUE)
            ELSE <<piece>> \o SplitFrom(t, i + 1, <<>>, TRUE)
       ELSE SplitFrom(t, i + 1, Append(piece, t[i]), FALSE)
split(t) == SplitFrom(t, 1, <<>>, FALSE)

\* .filter { it.isNotEmpty() }
isNotEmpty(w) == w # <<>>
words(t) == SelectSeq(split(t), isNotEmpty)

\* joinToString(" ")
RECURSIVE joinToString(_)
joinToString(ws) ==
  IF ws = <<>> THEN <<>>
  ELSE IF Len(ws) = 1 THEN ws[1]
  ELSE ws[1] \o <<" ">> \o joinToString(Tail(ws))

\* String.lastIndexOf(c), counted from 1; 0 when c does not occur (-1)
lastIndexOf(t, c) ==
  LET at == {i \in 1..Len(t) : t[i] = c}
  IN IF at = {} THEN 0 ELSE CHOOSE i \in at : \A j \in at : i >= j

\* a.coerceAtMost(b)
coerceAtMost(a, b) == IF a < b THEN a ELSE b

\* a turn whose cursor stays where it is
Turn_stuck(ws, mw, cur) ==
  [sentence |-> trim(ws[cur + 1]), next |-> cur]

\* a turn that ignores the window and takes a single word
Turn_oneWord(ws, mw, cur) ==
  [sentence |-> trim(ws[cur + 1]), next |-> cur + 1]

\* one turn of the loop of splitText, lines 265-286, over the word list ws:
\* the sentence it adds and the cursor it leaves
Turn(ws, mw, cur) ==
  LET endIndex   == coerceAtMost(cur + mw, Len(ws))
      chunk      == joinToString(SubSeq(ws, cur + 1, endIndex))
      lastPeriod == lastIndexOf(chunk, ".")
      lastComma  == lastIndexOf(chunk, ",")
      sentence   == IF lastPeriod # 0 THEN trim(SubSeq(chunk, 1, lastPeriod))
                    ELSE IF lastComma # 0
                    THEN trim(SubSeq(chunk, 1, lastComma))
                    ELSE trim(chunk)
  IN [sentence |-> sentence,
      next |-> IF lastPeriod # 0 \/ lastComma # 0
               THEN cur + Len(split(sentence))
               ELSE cur + mw]

\* splitText(text, maxWords), lines 258-290, as a function
RECURSIVE splitFrom(_, _, _)
splitFrom(ws, mw, cur) ==
  IF cur >= Len(ws) THEN <<>>
  ELSE LET t == Turn(ws, mw, cur)
       IN <<t.sentence>> \o splitFrom(ws, mw, t.next)
splitText(t, mw) == splitFrom(words(t), mw, 0)

\* ------------------------------------------- native-module thread ---
\* where the caller continues when an AudioPlayer method returns
Return(next) ==
  /\ modPc' = next
  /\ modOp' = IF next = "idle" THEN "none" ELSE modOp

\* the request the caller is working for
CurSession == IF modOp = "gAP" THEN session[modPromise] ELSE playbackId

\* lastOp and repeated record whether a teardown (deinitialize, or a direct
\* stopPlayer) directly follows another one
BeginOp(op, teardown) ==
  /\ modOp' = op
  /\ lastOp' = (IF teardown THEN "stop" ELSE "other")
  /\ repeated' = (teardown /\ lastOp = "stop")

\* AudioPlayer.start: acquires the device, posts the timer, starts the thread
start ==
  IF isRunning
  THEN UNCHANGED <<isRunning, audioTrack, tickPosted, thrVars>>
  ELSE /\ audioTrack' = TRUE
       /\ isRunning' = TRUE
       /\ tickPosted' = tickPosted + 1
       /\ thrPc' = "loop"
       /\ interrupted' = FALSE
       /\ UNCHANGED <<thrSamples, thrReg, thrTag>>

\* initializeTTS, lines 95-144: a new AudioPlayer with its delegate, the
\* engine, start(); the fields of the module now name the new player. What
\* the player named before left on the looper belongs to that player
createAndStart ==
  /\ modPc = "idle" /\ inits < MaxInits
  /\ realTimeAudioPlayer' = TRUE /\ tts' = TRUE
  /\ sentCompletion' = FALSE /\ enqueueClosed' = TRUE
  /\ didSignalFinish' = FALSE /\ playbackId' = 0 /\ pendingWrites' = 0
  /\ audioQueue' = <<>> /\ accumulationBuffer' = <<>> /\ volumesQueue' = <<>>
  /\ audioTrack' = TRUE /\ isRunning' = TRUE
  /\ tickPosted' = 1
  /\ mainTag' = IF mainPc = "tk_repost" THEN -1 ELSE mainTag
  /\ thrPc' = "loop" /\ interrupted' = FALSE
  /\ thrSamples' = NoChunk /\ thrReg' = 0 /\ thrTag' = 0
  /\ inits' = inits + 1
  /\ lastOp' = "other" /\ repeated' = FALSE
  /\ loud' = FALSE
  /\ UNCHANGED <<restVars, mainQ, mainPc, mainP, playbackSeq, activePlaybackId,
                 stopping, pendingPromise, modVars, promiseSeq, lastCall, settled,
                 session, sent, enqueued, closed, written, released,
                 stops>>

\* initializeTTS on a module that holds no player: the first call, and a
\* call after deinitialize (whose stopped player finds its own isRunning
\* false)
initializeTTS == ~realTimeAudioPlayer /\ createAndStart

\* initializeTTS on a module that holds a player: lines 97 and 140 overwrite
\* the two fields; the player named before is neither stopped nor released,
\* and its thread, timer and device are followed no further here than by
\* inits and released
initializeTTS_again == realTimeAudioPlayer /\ createAndStart

\* texts a caller passes, and those of them splitText cuts into at most n
\* chunks of at most 15 words (lines 173, 228)
TextSamples  == {<<>>, <<" ">>, <<"a">>, <<"a", ".", " ", "a">>}
PlayTexts(n) == {t \in TextSamples : Len(splitText(trim(t), 15)) <= n}

\* generateAndPlay, lines 148-160: the two validations, for a text of at
\* most n chunks
generateAndPlayOf(n) ==
  /\ modPc = "idle" /\ promiseSeq < MaxPlays
  /\ promiseSeq' = promiseSeq + 1
  /\ \E txt \in PlayTexts(n) :
       /\ lastCall' = [op |-> "generateAndPlay", text |-> txt,
                       fileType |-> Null]
       /\ IF trim(txt) = <<>>
          THEN /\ Settle(promiseSeq', "EMPTY_TEXT", 0)
               /\ lastOp' = "other" /\ repeated' = FALSE
               /\ UNCHANGED modVars
          ELSE IF ~realTimeAudioPlayer \/ ~tts
          THEN /\ Settle(promiseSeq', "NOT_INITIALIZED", 0)
               /\ lastOp' = "other" /\ repeated' = FALSE
               /\ UNCHANGED modVars
          ELSE /\ BeginOp("gAP", FALSE)
               /\ modPc' = "gp_cancel" /\ modPromise' = promiseSeq'
               /\ modIdx' = 0 /\ modN' = Len(splitText(trim(txt), 15))
               /\ UNCHANGED settled
  /\ UNCHANGED <<restVars, playerVars, thrVars, mainVars, mgrVars, session, sent,
                 enqueued, closed, written, released, loud, inits, stops>>

generateAndPlay == generateAndPlayOf(MaxChunks)

\* line 163: pendingPromise?.resolve("Interrupted")
gp_cancel ==
  /\ modPc = "gp_cancel"
  /\ Settle(pendingPromise, "Interrupted", 0)
  /\ modPc' = "gp_install"
  /\ UNCHANGED <<restVars, playerVars, thrVars, mainVars, mgrVars, modOp, modPromise,
                 modIdx, modN, promiseSeq, lastCall, session, sent, enqueued,
                 closed, written, released, loud, inits, stops, lastOp, repeated>>

\* lines 164-168 with line 166 left out: the previous playback id is reused
gp_install_reuse ==
  /\ modPc = "gp_install"
  /\ pendingPromise' = modPromise
  /\ playbackSeq' = playbackSeq
  /\ activePlaybackId' = playbackSeq'
  /\ session' = [session EXCEPT ![modPromise] = playbackSeq']
  /\ modPc' = "bp_reset"
  /\ UNCHANGED <<restVars, playerVars, thrVars, mainVars, tts, realTimeAudioPlayer,
                 stopping, modOp, modPromise, modIdx, modN, promiseSeq, lastCall,
                 settled, sent, enqueued, closed, written, released, loud,
                 inits, stops, lastOp, repeated>>

\* lines 164-168: install the promise, allocate the playback id
gp_install ==
  /\ modPc = "gp_install"
  /\ pendingPromise' = modPromise
  /\ playbackSeq' = playbackSeq + 1
  /\ activePlaybackId' = playbackSeq'
  /\ session' = [session EXCEPT ![modPromise] = playbackSeq']
  /\ modPc' = "bp_reset"
  /\ UNCHANGED <<restVars, playerVars, thrVars, mainVars, tts, realTimeAudioPlayer,
                 stopping, modOp, modPromise, modIdx, modN, promiseSeq, lastCall,
                 settled, sent, enqueued, closed, written, released, loud,
                 inits, stops, lastOp, repeated>>

\* beginPlayback, lines 203-207: the per-request flags and the counter
bp_reset ==
  /\ modPc = "bp_reset"
  /\ playbackId' = playbackSeq
  /\ enqueueClosed' = FALSE /\ didSignalFinish' = FALSE
  /\ sentCompletion' = FALSE /\ pendingWrites' = 0
  /\ loud' = FALSE
  /\ modPc' = "bp_clear"
  /\ UNCHANGED <<restVars, isRunning, audioQueue, accumulationBuffer, volumesQueue,
                 audioTrack, thrVars, mainVars, mgrVars, modOp, modPromise,
                 modIdx, modN, histVars>>

\* beginPlayback, lines 209-217: clear the buffers, start if not running
bp_clear ==
  /\ modPc = "bp_clear"
  /\ audioQueue' = <<>> /\ accumulationBuffer' = <<>> /\ volumesQueue' = <<>>
  /\ start
  /\ Return(IF modOp = "gAP" THEN "gp_gen" ELSE "idle")
  /\ UNCHANGED <<restVars, sentCompletion, enqueueClosed, didSignalFinish, playbackId,
                 pendingWrites, mainQ, mainPc, mainP, mainTag, mgrVars,
                 modPromise, modIdx, modN, histVars, loud>>

\* enqueueAudioData, lines 134-137, for chunk k of session s
enqueueAudioData(s, k) ==
  /\ sentCompletion' = FALSE /\ didSignalFinish' = FALSE
  /\ enqueueClosed' = FALSE
  /\ audioQueue' = Append(audioQueue, <<s, k>>)
  /\ enqueued' = [enqueued EXCEPT ![s] = @ \cup {k}]

\* one turn of the loop of lines 174-177: generateAudio (292-304), which
\* synthesizes and enqueues, returns without audio, or throws
gp_gen ==
  /\ modPc = "gp_gen" /\ modIdx < modN
  /\ modIdx' = modIdx + 1
  /\ \E outcome \in {"ok", "null", "throw"} :
       CASE outcome = "ok" ->
              /\ enqueueAudioData(CurSession, modIdx')
              /\ modPc' = IF modIdx' = modN THEN "ee_close" ELSE "gp_gen"
         [] outcome = "null" ->
              /\ modPc' = IF modIdx' = modN THEN "ee_close" ELSE "gp_gen"
              /\ UNCHANGED <<sentCompletion, didSignalFinish, enqueueClosed,
                             audioQueue, enqueued>>
         [] outcome = "throw" ->
              /\ modPc' = "gp_catch"
              /\ UNCHANGED <<sentCompletion, didSignalFinish, enqueueClosed,
                             audioQueue, enqueued>>
  /\ UNCHANGED <<restVars, isRunning, playbackId, pendingWrites, accumulationBuffer,
                 volumesQueue, audioTrack, thrVars, mainVars, mgrVars, modOp,
                 modPromise, modN, promiseSeq, lastCall, settled, session, sent,
                 closed, written, released, loud, inits, stops, lastOp, repeated>>

\* line 182: pendingPromise = null
gp_catch ==
  /\ modPc = "gp_catch"
  /\ pendingPromise' = 0
  /\ modPc' = "gp_reject"
  /\ UNCHANGED <<restVars, playerVars, thrVars, mainVars, tts, realTimeAudioPlayer,
                 playbackSeq, activePlaybackId, stopping, modOp, modPromise,
                 modIdx, modN, histVars, loud>>

\* line 183: promise.reject("GENERATION_ERROR", ...)
gp_reject ==
  /\ modPc = "gp_reject"
  /\ Settle(modPromise, "GENERATION_ERROR", 0)
  /\ Return("idle")
  /\ UNCHANGED <<restVars, playerVars, thrVars, mainVars, mgrVars, modPromise, modIdx,
                 modN, promiseSeq, lastCall, session, sent, enqueued, closed,
                 written, released, loud, inits, stops, lastOp, repeated>>

\* endEnqueue, lines 221-224
ee_close ==
  /\ modPc = "ee_close"
  /\ enqueueClosed' = TRUE
  /\ accumulationBuffer' = <<>>
  /\ closed' = [closed EXCEPT ![CurSession] = TRUE]
  /\ modPc' = "ee_chk"
  /\ UNCHANGED <<restVars, isRunning, sentCompletion, didSignalFinish, playbackId,
                 pendingWrites, audioQueue, volumesQueue, audioTrack,
                 thrVars, mainVars, mgrVars, modOp, modPromise, modIdx, modN,
                 promiseSeq, lastCall, settled, session, sent, enqueued, written,
                 released, loud, inits, stops, lastOp, repeated>>

\* maybeSendCompletion on the caller, lines 151-156
ee_chk ==
  /\ modPc = "ee_chk"
  /\ IF Finished
     THEN modPc' = "ee_act" /\ UNCHANGED modOp
     ELSE Return("idle")
  /\ UNCHANGED <<restVars, playerVars, thrVars, mainVars, mgrVars, modPromise, modIdx,
                 modN, histVars, loud>>

\* maybeSendCompletion on the caller, lines 159-168
ee_act ==
  /\ modPc = "ee_act"
  /\ didSignalFinish' = TRUE /\ sentCompletion' = TRUE
  /\ accumulationBuffer' = <<>> /\ volumesQueue' = <<>>
  /\ PostSentinel(CurSession, "end")
  /\ Return("idle")
  /\ UNCHANGED <<restVars, isRunning, enqueueClosed, playbackId, pendingWrites,
                 audioQueue, audioTrack, thrVars, tickPosted, mainPc, mainP,
                 mainTag, mgrVars, modPromise, modIdx, modN, promiseSeq, lastCall,
                 settled, session, enqueued, closed, written, released, loud,
                 inits, stops, lastOp, repeated>>

\* deinitialize, line 191: stopping = true
deinitialize ==
  /\ modPc = "idle" /\ stops < MaxStops
  /\ stopping' = TRUE
  /\ stops' = stops + 1
  /\ BeginOp("deinit", TRUE)
  /\ modPc' = "de_resolve"
  /\ UNCHANGED <<restVars, playerVars, thrVars, mainVars, tts, realTimeAudioPlayer,
                 playbackSeq, activePlaybackId, pendingPromise, modPromise,
                 modIdx, modN, promiseSeq, lastCall, settled, session, sent,
                 enqueued, closed, written, released, loud, inits>>

\* line 194: pendingPromise?.resolve("Playback stopped")
de_resolve ==
  /\ modPc = "de_resolve"
  /\ Settle(pendingPromise, "Playback stopped", 0)
  /\ modPc' = "de_clear"
  /\ UNCHANGED <<restVars, playerVars, thrVars, mainVars, mgrVars, modOp, modPromise,
                 modIdx, modN, promiseSeq, lastCall, session, sent, enqueued,
                 closed, written, released, loud, inits, stops, lastOp, repeated>>

\* line 195: pendingPromise = null; line 197 calls stopPlayer on a player
de_clear ==
  /\ modPc = "de_clear"
  /\ pendingPromise' = 0
  /\ modPc' = IF realTimeAudioPlayer THEN "sp_entry" ELSE "de_null"
  /\ UNCHANGED <<restVars, playerVars, thrVars, mainVars, tts, realTimeAudioPlayer,
                 playbackSeq, activePlaybackId, stopping, modOp, modPromise,
                 modIdx, modN, histVars, loud>>

\* sp_entry with the early return of lines 175-179 posting nothing
sp_entry_silent ==
  /\ modPc = "sp_entry"
  /\ IF ~isRunning
     THEN /\ Return(IF modOp = "deinit" THEN "de_null" ELSE "idle")
          /\ UNCHANGED isRunning
     ELSE /\ isRunning' = FALSE
          /\ modPc' = "sp_interrupt"
          /\ UNCHANGED modOp
  /\ UNCHANGED <<restVars, sentCompletion, enqueueClosed, didSignalFinish, playbackId,
                 pendingWrites, audioQueue, accumulationBuffer, volumesQueue,
                 audioTrack, thrVars, mainVars, mgrVars, modPromise, modIdx,
                 modN, histVars, loud>>

\* stopPlayer, lines 175-180
sp_entry ==
  /\ modPc = "sp_entry"
  /\ IF ~isRunning
     THEN /\ PostSentinel(playbackId, "stop")
          /\ Return(IF modOp = "deinit" THEN "de_null" ELSE "idle")
          /\ UNCHANGED isRunning
     ELSE /\ isRunning' = FALSE
          /\ modPc' = "sp_interrupt"
          /\ UNCHANGED <<modOp, mainQ, sent>>
  /\ UNCHANGED <<restVars, sentCompletion, enqueueClosed, didSignalFinish, playbackId,
                 pendingWrites, audioQueue, accumulationBuffer, volumesQueue,
                 audioTrack, thrVars, tickPosted, mainPc, mainP, mainTag,
                 mgrVars, modPromise, modIdx, modN, promiseSeq, lastCall, settled,
                 session, enqueued, closed, written, released, loud, inits, stops,
                 lastOp, repeated>>

\* line 181: playbackThread?.interrupt()
sp_interrupt ==
  /\ modPc = "sp_interrupt"
  /\ interrupted' = (thrPc \notin {"none", "dead"})
  /\ modPc' = "sp_join"
  /\ UNCHANGED <<restVars, playerVars, thrPc, thrSamples, thrReg, thrTag, mainVars,
                 mgrVars, modOp, modPromise, modIdx, modN, histVars, loud>>

\* sp_join returning without waiting for the thread to end
sp_join_nowait ==
  /\ modPc = "sp_join"
  /\ modPc' = "sp_release"
  /\ UNCHANGED <<restVars, playerVars, thrVars, mainVars, mgrVars, modOp, modPromise,
                 modIdx, modN, histVars, loud>>

\* line 182: playbackThread?.join() returns once the thread has ended
sp_join ==
  /\ modPc = "sp_join"
  /\ thrPc \in {"none", "dead"}
  /\ modPc' = "sp_release"
  /\ UNCHANGED <<restVars, playerVars, thrVars, mainVars, mgrVars, modOp, modPromise,
                 modIdx, modN, histVars, loud>>

\* lines 184-188: remove the timer callbacks, stop and release the device
sp_release ==
  /\ modPc = "sp_release"
  /\ tickPosted' = 0
  /\ audioTrack' = FALSE
  /\ released' = released + 1
  /\ modPc' = "sp_finish"
  /\ UNCHANGED <<loud, restVars, isRunning, sentCompletion, enqueueClosed, didSignalFinish,
                 playbackId, pendingWrites, audioQueue, accumulationBuffer,
                 volumesQueue, thrVars, mainQ, mainPc, mainP, mainTag,
                 mgrVars, modOp, modPromise, modIdx, modN, promiseSeq, lastCall,
                 settled, session, sent, enqueued, closed, written, inits,
                 stops, lastOp, repeated>>

\* sp_finish without the post of line 199
sp_finish_silent ==
  /\ modPc = "sp_finish"
  /\ accumulationBuffer' = <<>> /\ volumesQueue' = <<>>
  /\ enqueueClosed' = TRUE /\ didSignalFinish' = TRUE
  /\ sentCompletion' = TRUE
  /\ Return(IF modOp = "deinit" THEN "de_null" ELSE "idle")
  /\ UNCHANGED <<restVars, isRunning, playbackId, pendingWrites, audioQueue,
                 audioTrack, thrVars, mainVars, mgrVars, modPromise, modIdx,
                 modN, histVars, loud>>

\* lines 190-199: clear the buffers, set the flags, post the sentinel
sp_finish ==
  /\ modPc = "sp_finish"
  /\ accumulationBuffer' = <<>> /\ volumesQueue' = <<>>
  /\ enqueueClosed' = TRUE /\ didSignalFinish' = TRUE
  /\ sentCompletion' = TRUE
  /\ PostSentinel(playbackId, "stop")
  /\ Return(IF modOp = "deinit" THEN "de_null" ELSE "idle")
  /\ UNCHANGED <<restVars, isRunning, playbackId, pendingWrites, audioQueue,
                 audioTrack, thrVars, tickPosted, mainPc, mainP, mainTag,
                 mgrVars, modPromise, modIdx, modN, promiseSeq, lastCall, settled,
                 session, enqueued, closed, written, released, loud, inits, stops,
                 lastOp, repeated>>

\* de_null without lines 200-201 (the engine is kept)
de_null_keepsEngine ==
  /\ modPc = "de_null"
  /\ realTimeAudioPlayer' = FALSE
  /\ stopping' = FALSE
  /\ Return("idle")
  /\ UNCHANGED <<restVars, playerVars, thrVars, mainVars, tts, playbackSeq,
                 activePlaybackId, pendingPromise, modPromise, modIdx, modN,
                 histVars, loud>>

\* de_null without line 198 (the stopped player is kept)
de_null_keepsPlayer ==
  /\ modPc = "de_null"
  /\ tts' = FALSE
  /\ stopping' = FALSE
  /\ Return("idle")
  /\ UNCHANGED <<restVars, playerVars, thrVars, mainVars, realTimeAudioPlayer,
                 playbackSeq, activePlaybackId, pendingPromise, modPromise,
                 modIdx, modN, histVars, loud>>

\* lines 198-203: drop the player and the engine, stopping = false
de_null ==
  /\ modPc = "de_null"
  /\ realTimeAudioPlayer' = FALSE
  /\ tts' = FALSE
  /\ stopping' = FALSE
  /\ Return("idle")
  /\ UNCHANGED <<restVars, playerVars, thrVars, mainVars, playbackSeq,
                 activePlaybackId, pendingPromise, modPromise, modIdx, modN,
                 histVars, loud>>

\* ---------------------------------------------------- generateAndSave ---
\* the fileType argument: omitted, "wav", "WAV", "mp3", ""
wav       == <<"w", "a", "v">>
FileTypes == {Null, wav, <<"W", "A", "V">>, <<"m", "p", "3">>, <<>>}

\* String.lowercase() and the elvis operator of line 220
lowercaseChar(c) ==
  CASE c = "W" -> "w" [] c = "A" -> "a" [] c = "V" -> "v" [] OTHER -> c
lowercase(t) == [i \in DOMAIN t |-> lowercaseChar(t[i])]
orElse(v, d) == IF v = Null THEN d ELSE v

\* resolve / reject on the promise of generateAndSave call q
SaveSettle(q, how) ==
  saveSettled' = [saveSettled EXCEPT ![q] = Append(@, how)]

\* generateAndSave comparing fileType without lowercase() (line 220)
generateAndSave_caseSensitive ==
  /\ modPc = "idle" /\ saveSeq < MaxSaves
  /\ saveSeq' = saveSeq + 1
  /\ \E txt \in PlayTexts(MaxChunks), ft \in FileTypes :
       /\ lastCall' = [op |-> "generateAndSave", text |-> txt,
                       fileType |-> ft]
       /\ IF trim(txt) = <<>>
          THEN /\ SaveSettle(saveSeq', "EMPTY_TEXT")
               /\ UNCHANGED <<savePc, saveIdx, saveN>>
          ELSE IF ~tts
          THEN /\ SaveSettle(saveSeq', "NOT_INITIALIZED")
               /\ UNCHANGED <<savePc, saveIdx, saveN>>
          ELSE IF orElse(ft, wav) # wav
          THEN /\ SaveSettle(saveSeq', "UNSUPPORTED_FILETYPE")
               /\ UNCHANGED <<savePc, saveIdx, saveN>>
          ELSE /\ savePc' = [savePc EXCEPT ![saveSeq'] = "sv_gen"]
               /\ saveIdx' = [saveIdx EXCEPT ![saveSeq'] = 0]
               /\ saveN' = [saveN EXCEPT ![saveSeq'] =
                              Len(splitText(trim(txt), 15))]
               /\ UNCHANGED saveSettled
  /\ lastOp' = "other" /\ repeated' = FALSE
  /\ UNCHANGED <<splitVars, wavVars, chunkVars, playerVars, thrVars, mainVars, mgrVars, modVars, promiseSeq,
                 settled, session, sent, enqueued, closed, written, released, loud,
                 inits, stops, uiQ, files>>

\* generateAndSave with the engine check of lines 214-218 made first
generateAndSave_engineFirst ==
  /\ modPc = "idle" /\ saveSeq < MaxSaves
  /\ saveSeq' = saveSeq + 1
  /\ \E txt \in PlayTexts(MaxChunks), ft \in FileTypes :
       /\ lastCall' = [op |-> "generateAndSave", text |-> txt,
                       fileType |-> ft]
       /\ IF ~tts
          THEN /\ SaveSettle(saveSeq', "NOT_INITIALIZED")
               /\ UNCHANGED <<savePc, saveIdx, saveN>>
          ELSE IF trim(txt) = <<>>
          THEN /\ SaveSettle(saveSeq', "EMPTY_TEXT")
               /\ UNCHANGED <<savePc, saveIdx, saveN>>
          ELSE IF lowercase(orElse(ft, wav)) # wav
          THEN /\ SaveSettle(saveSeq', "UNSUPPORTED_FILETYPE")
               /\ UNCHANGED <<savePc, saveIdx, saveN>>
          ELSE /\ savePc' = [savePc EXCEPT ![saveSeq'] = "sv_gen"]
               /\ saveIdx' = [saveIdx EXCEPT ![saveSeq'] = 0]
               /\ saveN' = [saveN EXCEPT ![saveSeq'] =
                              Len(splitText(trim(txt), 15))]
               /\ UNCHANGED saveSettled
  /\ lastOp' = "other" /\ repeated' = FALSE
  /\ UNCHANGED <<splitVars, wavVars, chunkVars, playerVars, thrVars, mainVars, mgrVars, modVars, promiseSeq,
                 settled, session, sent, enqueued, closed, written, released, loud,
                 inits, stops, uiQ, files>>

\* generateAndSave, lines 207-226: the three validations, then thread { }
generateAndSave ==
  /\ modPc = "idle" /\ saveSeq < MaxSaves
  /\ saveSeq' = saveSeq + 1
  /\ \E txt \in PlayTexts(MaxChunks), ft \in FileTypes :
       /\ lastCall' = [op |-> "generateAndSave", text |-> txt,
                       fileType |-> ft]
       /\ IF trim(txt) = <<>>
          THEN /\ SaveSettle(saveSeq', "EMPTY_TEXT")
               /\ UNCHANGED <<savePc, saveIdx, saveN>>
          ELSE IF ~tts
          THEN /\ SaveSettle(saveSeq', "NOT_INITIALIZED")
               /\ UNCHANGED <<savePc, saveIdx, saveN>>
          ELSE IF lowercase(orElse(ft, wav)) # wav
          THEN /\ SaveSettle(saveSeq', "UNSUPPORTED_FILETYPE")
               /\ UNCHANGED <<savePc, saveIdx, saveN>>
          ELSE /\ savePc' = [savePc EXCEPT ![saveSeq'] = "sv_gen"]
               /\ saveIdx' = [saveIdx EXCEPT ![saveSeq'] = 0]
               /\ saveN' = [saveN EXCEPT ![saveSeq'] =
                              Len(splitText(trim(txt), 15))]
               /\ UNCHANGED saveSettled
  /\ lastOp' = "other" /\ repeated' = FALSE
  /\ UNCHANGED <<splitVars, wavVars, chunkVars, playerVars, thrVars, mainVars, mgrVars, modVars, promiseSeq,
                 settled, session, sent, enqueued, closed, written, released, loud,
                 inits, stops, uiQ, files>>

\* the worker thread of call q, lines 234-240: engine.generate for the next
\* sentence returns audio, returns null (line 237 throws) or throws; a
\* failure is caught at line 248 and the rejection posted to the UI thread
sv_gen(q) ==
  /\ savePc[q] = "sv_gen" /\ saveIdx[q] < saveN[q]
  /\ \E ok \in BOOLEAN :
       IF ok
       THEN /\ saveIdx' = [saveIdx EXCEPT ![q] = @ + 1]
            /\ savePc' = [savePc EXCEPT ![q] =
                            IF saveIdx[q] + 1 = saveN[q] THEN "sv_file"
                            ELSE "sv_gen"]
            /\ UNCHANGED uiQ
       ELSE /\ savePc' = [savePc EXCEPT ![q] = "done"]
            /\ uiQ' = Append(uiQ, [q |-> q, how |-> "SAVE_ERROR"])
            /\ UNCHANGED saveIdx
  /\ UNCHANGED <<splitVars, wavVars, chunkVars, playerVars, thrVars, mainVars, mgrVars, modVars, histVars, loud,
                 saveSeq, saveSettled, saveN, files>>

\* lines 242-251: resolveOutputFile and writeWavPCM16 create the file, or
\* fail with an I/O error; the settlement is posted to the UI thread
sv_file(q) ==
  /\ savePc[q] = "sv_file"
  /\ savePc' = [savePc EXCEPT ![q] = "done"]
  /\ \E ok \in BOOLEAN :
       IF ok
       THEN /\ files' = files + 1
            /\ uiQ' = Append(uiQ, [q |-> q, how |-> "path"])
       ELSE /\ uiQ' = Append(uiQ, [q |-> q, how |-> "SAVE_ERROR"])
            /\ UNCHANGED files
  /\ UNCHANGED <<splitVars, wavVars, chunkVars, playerVars, thrVars, mainVars, mgrVars, modVars, histVars, loud,
                 saveSeq, saveSettled, saveIdx, saveN>>

\* the UI thread runs a block posted by runOnUiQueueThread, lines 245-251
sv_ui ==
  /\ mainPc = "idle" /\ uiQ # <<>>
  /\ SaveSettle(Head(uiQ).q, Head(uiQ).how)
  /\ uiQ' = Tail(uiQ)
  /\ UNCHANGED <<splitVars, wavVars, chunkVars, playerVars, thrVars, mainVars, mgrVars, modVars, histVars, loud,
                 saveSeq, savePc, saveIdx, saveN, files>>

\* ------------------------------------------------- writeWavPCM16 ---
\* a Float sample is written as a number of quarters (-6 is -1.5f, 1 is
\* 0.25f): every product with 32767f is then exact in Float arithmetic
SampleValues == {-6, -4, -1, 0, 2, 4}
SampleRates  == {16000, 22050, 44100}
ChannelNums  == {1, 2}

RECURSIVE SamplesUpTo(_)
SamplesUpTo(n) ==
  IF n = 0 THEN {<<>>}
  ELSE LET shorter == SamplesUpTo(n - 1)
       IN shorter \cup {Append(t, v) : t \in shorter, v \in SampleValues}

\* f.coerceIn(-1f, 1f), in quarters
coerceIn(f, lo, hi) == IF f < lo THEN lo ELSE IF f > hi THEN hi ELSE f

\* (c * 32767f).toInt(): the product of c quarters, truncated towards zero
toInt(c) ==
  IF c >= 0 THEN (c * 32767) \div 4 ELSE 0 - ((0 - c) * 32767) \div 4

\* Int.toShort(): the low 16 bits, as a signed value
toShort(v) ==
  LET low == v % 65536 IN IF low >= 32768 THEN low - 65536 ELSE low

\* ((v shr 8k) and 0xFF) of a two's-complement Int: shr is the division
\* that rounds down, and 0xFF keeps the remainder in 0..255
byteOf(v, k) == (v \div (256 ^ k)) % 256

\* lines 341-348: each sample as two bytes, low byte first
RECURSIVE toPcm(_)
toPcm(fs) ==
  IF fs = <<>> THEN <<>>
  ELSE LET sh == toShort(toInt(coerceIn(Head(fs), -4, 4)))
       IN <<byteOf(sh, 0), byteOf(sh, 1)>> \o toPcm(Tail(fs))

\* String.toByteArray(Charsets.US_ASCII) of the four chunk ids
US_ASCII ==
  [c \in {"R", "I", "F", "W", "A", "V", "E", "f", "m", "t", " ", "d", "a"} |->
     CASE c = "R" -> 82 [] c = "I" -> 73 [] c = "F" -> 70 [] c = "W" -> 87
       [] c = "A" -> 65 [] c = "V" -> 86 [] c = "E" -> 69 [] c = "f" -> 102
       [] c = "m" -> 109 [] c = "t" -> 116 [] c = " " -> 32 [] c = "d" -> 100
       [] c = "a" -> 97]

wStr(str) == [i \in DOMAIN str |-> US_ASCII[str[i]]]
wI32(v)   == <<byteOf(v, 0), byteOf(v, 1), byteOf(v, 2), byteOf(v, 3)>>
wI16(v)   == <<byteOf(v, 0), byteOf(v, 1)>>

\* riffSizeOf taking the size of the whole file
riffSize_wholeFile(dataSize) == 44 + dataSize

\* line 353: val riffSize = 36 + dataSize
riffSizeOf(dataSize) == 36 + dataSize

\* lines 350-376: the header fields in file order, then the PCM bytes
wavBytes(bytes, rate, ch) ==
  LET byteRate   == rate * ch * 2
      blockAlign == toShort(ch * 2)
      dataSize   == Len(bytes)
      riffSize   == riffSizeOf(dataSize)
  IN wStr(<<"R", "I", "F", "F">>) \o wI32(riffSize)
       \o wStr(<<"W", "A", "V", "E">>)
       \o wStr(<<"f", "m", "t", " ">>) \o wI32(16) \o wI16(1)
       \o wI16(toShort(ch))
       \o wI32(rate)
       \o wI32(byteRate)
       \o wI16(blockAlign)
       \o wI16(16)
       \o wStr(<<"d", "a", "t", "a">>) \o wI32(dataSize)
       \o bytes

\* lines 341-348 of a call writeWavPCM16(out, floatSamples, sampleRate,
\* channels): the conversion loop
wv_pcm ==
  /\ wavPc = "arg"
  /\ pcm' = toPcm(floatSamples)
  /\ wavPc' = "pcm"
  /\ UNCHANGED <<floatSamples, sampleRate, channels, out, playerVars, thrVars,
                 mainVars, mgrVars, modVars, histVars, loud, saveVars,
                 splitVars, chunkVars>>

\* lines 350-376: the file is written and closed
wv_write ==
  /\ wavPc = "pcm"
  /\ out' = wavBytes(pcm, sampleRate, channels)
  /\ wavPc' = "written"
  /\ UNCHANGED <<floatSamples, sampleRate, channels, pcm, playerVars, thrVars,
                 mainVars, mgrVars, modVars, histVars, loud, saveVars,
                 splitVars, chunkVars>>

\* ---------------------------------- the engine driven directly ---
\* a caller of AudioPlayer's public methods: beginPlayback(id)
api_begin ==
  /\ modPc = "idle" /\ playbackSeq < MaxPlays
  /\ playbackSeq' = playbackSeq + 1
  /\ BeginOp("api", FALSE)
  /\ modPc' = "bp_reset"
  /\ UNCHANGED <<restVars, playerVars, thrVars, mainVars, tts, realTimeAudioPlayer,
                 activePlaybackId, stopping, pendingPromise, modPromise,
                 modIdx, modN, promiseSeq, lastCall, settled, session, sent, enqueued,
                 closed, written, released, loud, inits, stops>>

\* enqueueAudioData(samples, sampleRate) for the open request
api_enqueue ==
  /\ modPc = "idle" /\ playbackId >= 1
  /\ ~closed[playbackId] /\ Cardinality(enqueued[playbackId]) < MaxChunks
  /\ enqueueAudioData(playbackId, Cardinality(enqueued[playbackId]) + 1)
  /\ lastOp' = "other" /\ repeated' = FALSE
  /\ UNCHANGED <<restVars, isRunning, playbackId, pendingWrites, accumulationBuffer,
                 volumesQueue, audioTrack, thrVars, mainVars, mgrVars,
                 modVars, promiseSeq, lastCall, settled, session, sent, closed,
                 written, released, loud, inits, stops>>

\* the rate of the AudioPlayer (its constructor argument sampleRate), as the
\* JavaScript wrapper passes it to initializeTTS, and the rates of the audio
\* an engine returns
playerSampleRate == 22050
EngineRates      == {16000, 22050}

\* enqueueAudioData(samples, sr) for the current request, with the rate of
\* any engine and at any time, also after endEnqueue: the call is made
api_enqueueAny ==
  /\ modPc = "idle" /\ playbackId >= 1
  /\ Cardinality(enqueued[playbackId]) < MaxChunks
  /\ \E r \in EngineRates : sr' = r
  /\ BeginOp("api", FALSE)
  /\ modPc' = "eq_check"
  /\ UNCHANGED <<saveVars, splitVars, wavVars, samplesSize, playerVars, thrVars,
                 mainVars, mgrVars, modPromise, modIdx, modN, promiseSeq,
                 lastCall, settled, session, sent, enqueued, closed, written,
                 released, loud, inits, stops>>

\* lines 133-137 with the rate compared after the flags are reset and the
\* samples offered
eq_check_late ==
  /\ modPc = "eq_check"
  /\ enqueueAudioData(playbackId, Cardinality(enqueued[playbackId]) + 1)
  /\ closed' = [closed EXCEPT ![playbackId] = FALSE]
  /\ Return("idle")
  /\ UNCHANGED <<restVars, isRunning, playbackId, pendingWrites, accumulationBuffer,
                 volumesQueue, audioTrack, thrVars, mainVars, mgrVars,
                 modPromise, modIdx, modN, promiseSeq, lastCall, settled,
                 session, sent, written, released, loud, inits, stops,
                 lastOp, repeated>>

\* lines 133-137: a rate other than the player's throws before anything is
\* changed; the call of an accepted chunk (re)opens the request
eq_check ==
  /\ modPc = "eq_check"
  /\ IF sr # playerSampleRate
     THEN UNCHANGED <<sentCompletion, didSignalFinish, enqueueClosed,
                      audioQueue, enqueued, closed>>
     ELSE /\ enqueueAudioData(playbackId,
                              Cardinality(enqueued[playbackId]) + 1)
          /\ closed' = [closed EXCEPT ![playbackId] = FALSE]
  /\ Return("idle")
  /\ UNCHANGED <<restVars, isRunning, playbackId, pendingWrites, accumulationBuffer,
                 volumesQueue, audioTrack, thrVars, mainVars, mgrVars,
                 modPromise, modIdx, modN, promiseSeq, lastCall, settled,
                 session, sent, written, released, loud, inits, stops,
                 lastOp, repeated>>

\* endEnqueue() for the open request
api_end ==
  /\ modPc = "idle" /\ playbackId >= 1 /\ ~closed[playbackId]
  /\ BeginOp("api", FALSE)
  /\ modPc' = "ee_close"
  /\ UNCHANGED <<restVars, playerVars, thrVars, mainVars, mgrVars, modPromise, modIdx,
                 modN, promiseSeq, lastCall, settled, session, sent, enqueued, closed,
                 written, released, loud, inits, stops>>

\* stopPlayer()
api_stop ==
  /\ modPc = "idle" /\ stops < MaxStops
  /\ stops' = stops + 1
  /\ BeginOp("api", TRUE)
  /\ modPc' = "sp_entry"
  /\ UNCHANGED <<restVars, playerVars, thrVars, mainVars, mgrVars, modPromise, modIdx,
                 modN, promiseSeq, lastCall, settled, session, sent, enqueued, closed,
                 written, released, loud, inits>>

\* start()
api_start ==
  /\ modPc = "idle" /\ inits < MaxInits
  /\ inits' = inits + 1
  /\ start
  /\ lastOp' = "other" /\ repeated' = FALSE
  /\ UNCHANGED <<restVars, sentCompletion, enqueueClosed, didSignalFinish, playbackId,
                 pendingWrites, audioQueue, accumulationBuffer, volumesQueue,
                 mainQ, mainPc, mainP, mainTag, mgrVars, modVars, promiseSeq, lastCall,
                 settled, session, sent, enqueued, closed, written, released, loud,
                 stops>>

\* ------------------------------------------------ playback thread ---
\* line 101: while (isRunning), as the started thread first evaluates it
thr_loop ==
  /\ thrPc = "loop"
  /\ thrPc' = IF isRunning THEN "take" ELSE "dead"
  /\ UNCHANGED <<restVars, playerVars, thrSamples, thrReg, thrTag, interrupted,
                 mainVars, mgrVars, modVars, histVars, loud>>

\* thr_take taking the newest chunk of the queue instead of the oldest
thr_take_newest ==
  /\ thrPc = "take"
  /\ IF interrupted
     THEN /\ isRunning' = FALSE
          /\ interrupted' = FALSE
          /\ thrPc' = "dead"
          /\ UNCHANGED <<audioQueue, thrSamples>>
     ELSE /\ audioQueue # <<>>
          /\ thrSamples' = audioQueue[Len(audioQueue)]
          /\ audioQueue' = SubSeq(audioQueue, 1, Len(audioQueue) - 1)
          /\ thrPc' = "acc"
          /\ UNCHANGED <<isRunning, interrupted>>
  /\ UNCHANGED <<restVars, sentCompletion, enqueueClosed, didSignalFinish, playbackId,
                 pendingWrites, accumulationBuffer, volumesQueue, audioTrack,
                 thrReg, thrTag, mainVars, mgrVars, modVars, histVars, loud>>

\* line 103: audioQueue.take(), which blocks while the queue is empty and
\* throws when the thread is interrupted (lines 112-115)
thr_take ==
  /\ thrPc = "take"
  /\ IF interrupted
     THEN /\ isRunning' = FALSE
          /\ interrupted' = FALSE
          /\ thrPc' = "dead"
          /\ UNCHANGED <<audioQueue, thrSamples>>
     ELSE /\ audioQueue # <<>>
          /\ thrSamples' = Head(audioQueue)
          /\ audioQueue' = Tail(audioQueue)
          /\ thrPc' = "acc"
          /\ UNCHANGED <<isRunning, interrupted>>
  /\ UNCHANGED <<restVars, sentCompletion, enqueueClosed, didSignalFinish, playbackId,
                 pendingWrites, accumulationBuffer, volumesQueue, audioTrack,
                 thrReg, thrTag, mainVars, mgrVars, modVars, histVars, loud>>

\* lines 104-107: accumulate the samples and slice the full windows off
thr_accOf(n) ==
  /\ thrPc = "acc"
  /\ LET buf == accumulationBuffer \o asList(thrSamples, n)
     IN /\ volumesQueue' = volumesQueue \o sliced(buf)
        /\ accumulationBuffer' = remainder(buf)
  /\ samplesSize' = n
  /\ thrPc' = "incR"
  /\ UNCHANGED <<saveVars, splitVars, wavVars, sr, isRunning, sentCompletion, enqueueClosed, didSignalFinish,
                 playbackId, pendingWrites, audioQueue, audioTrack,
                 thrSamples, thrReg, thrTag, interrupted, mainVars, mgrVars,
                 modVars, histVars, loud>>

\* every synthesized chunk has ChunkSamples samples
thr_acc == thr_accOf(ChunkSamples)

\* the engine returns chunks of any length, whole windows or not
thr_accAny == \E n \in 0..MaxChunkSamples : thr_accOf(n)

\* line 108, pendingWrites += 1: the read
thr_incR ==
  /\ thrPc = "incR"
  /\ thrReg' = pendingWrites
  /\ thrPc' = "incW"
  /\ UNCHANGED <<restVars, playerVars, thrSamples, thrTag, interrupted, mainVars,
                 mgrVars, modVars, histVars, loud>>

\* line 108, pendingWrites += 1: the write; the device write then begins
thr_incW ==
  /\ thrPc = "incW"
  /\ pendingWrites' = thrReg + 1
  /\ thrReg' = 0
  /\ thrPc' = "write"
  /\ UNCHANGED <<restVars, isRunning, sentCompletion, enqueueClosed, didSignalFinish,
                 playbackId, audioQueue, accumulationBuffer, volumesQueue,
                 audioTrack, thrSamples, thrTag, interrupted,
                 mainVars, mgrVars, modVars, histVars, loud>>

\* line 109: the blocking AudioTrack.write returns
thr_write ==
  /\ thrPc = "write"
  /\ written' = written \cup {thrSamples}
  /\ thrSamples' = NoChunk
  /\ thrPc' = "decR"
  /\ UNCHANGED <<restVars, playerVars, thrReg, thrTag, interrupted, mainVars, mgrVars,
                 modVars, promiseSeq, lastCall, settled, session, sent, enqueued,
                 closed, released, loud, inits, stops, lastOp, repeated>>

\* line 110, pendingWrites -= 1: the read
thr_decR ==
  /\ thrPc = "decR"
  /\ thrReg' = pendingWrites
  /\ thrPc' = "decW"
  /\ UNCHANGED <<restVars, playerVars, thrSamples, thrTag, interrupted, mainVars,
                 mgrVars, modVars, histVars, loud>>

\* line 110, pendingWrites -= 1: the write
thr_decW ==
  /\ thrPc = "decW"
  /\ pendingWrites' = thrReg - 1
  /\ thrReg' = 0
  /\ thrPc' = "chk"
  /\ UNCHANGED <<restVars, isRunning, sentCompletion, enqueueClosed, didSignalFinish,
                 playbackId, audioQueue, accumulationBuffer, volumesQueue,
                 audioTrack, thrSamples, thrTag, interrupted, mainVars,
                 mgrVars, modVars, histVars, loud>>

\* the end of an iteration: the loop test of line 101 follows at once
AfterIteration == IF isRunning THEN "take" ELSE "dead"

\* maybeSendCompletion on the playback thread, lines 151-156
thr_chk ==
  /\ thrPc = "chk"
  /\ IF Finished
     THEN thrPc' = "act" /\ thrTag' = playbackId
     ELSE thrPc' = AfterIteration /\ UNCHANGED thrTag
  /\ UNCHANGED <<restVars, playerVars, thrSamples, thrReg, interrupted, mainVars,
                 mgrVars, modVars, histVars, loud>>

\* maybeSendCompletion on the playback thread, lines 159-168
thr_act ==
  /\ thrPc = "act"
  /\ didSignalFinish' = TRUE /\ sentCompletion' = TRUE
  /\ accumulationBuffer' = <<>> /\ volumesQueue' = <<>>
  /\ PostSentinel(thrTag, "drain")
  /\ thrTag' = 0
  /\ thrPc' = AfterIteration
  /\ UNCHANGED <<restVars, isRunning, enqueueClosed, playbackId, pendingWrites,
                 audioQueue, audioTrack, thrSamples, thrReg, interrupted,
                 tickPosted, mainPc, mainP, mainTag, mgrVars, modVars,
                 promiseSeq, lastCall, settled, session, enqueued, closed, written,
                 released, loud, inits, stops, lastOp, repeated>>

\* ---------------------------------------------------- main looper ---
\* tick_run waiting for the playback thread to leave the device write
tick_run_afterWrite ==
  /\ mainPc = "idle" /\ tickPosted > 0 /\ thrPc # "write"
  /\ tickPosted' = tickPosted - 1
  /\ IF ~isRunning
     THEN UNCHANGED <<mainPc, mainTag, volumesQueue>>
     ELSE /\ mainPc' = "tk_repost"
          /\ mainTag' = 0
          /\ volumesQueue' = IF volumesQueue # <<>> THEN Tail(volumesQueue)
                           ELSE <<>>
  /\ loud' = (loud \/ (isRunning /\ volumesQueue # <<>>))
  /\ UNCHANGED <<restVars, isRunning, sentCompletion, enqueueClosed, didSignalFinish,
                 playbackId, pendingWrites, audioQueue, accumulationBuffer,
                 audioTrack, thrVars, mainQ, mainP, mgrVars, modVars,
                 histVars>>

\* volumeUpdateRunnable.run, lines 41-48: deliver a loudness value or 0
tick_run ==
  /\ mainPc = "idle" /\ tickPosted > 0
  /\ tickPosted' = tickPosted - 1
  /\ IF ~isRunning
     THEN UNCHANGED <<mainPc, mainTag, volumesQueue>>
     ELSE /\ mainPc' = "tk_repost"
          /\ mainTag' = 0
          /\ volumesQueue' = IF volumesQueue # <<>> THEN Tail(volumesQueue)
                           ELSE <<>>
  /\ loud' = (loud \/ (isRunning /\ volumesQueue # <<>>))
  /\ UNCHANGED <<restVars, isRunning, sentCompletion, enqueueClosed, didSignalFinish,
                 playbackId, pendingWrites, audioQueue, accumulationBuffer,
                 audioTrack, thrVars, mainQ, mainP, mgrVars, modVars,
                 histVars>>

\* volumeUpdateRunnable.run, lines 50-52: repost while running (the
\* runnable of a player that deinitialize dropped sees its own isRunning)
tick_repost ==
  /\ mainPc = "tk_repost"
  /\ tickPosted' = IF isRunning /\ mainTag # -1 THEN tickPosted + 1
                   ELSE tickPosted
  /\ mainPc' = "idle"
  /\ mainTag' = 0
  /\ UNCHANGED <<restVars, playerVars, thrVars, mainQ, mainP, mgrVars, modVars,
                 histVars, loud>>

\* the posted didUpdateVolume(-1f), lines 99-102
dv_entry ==
  /\ mainPc = "idle" /\ mainQ # <<>>
  /\ mainQ' = Tail(mainQ)
  /\ IF stopping
     THEN UNCHANGED <<mainPc, mainTag>>
     ELSE mainPc' = "dv_read" /\ mainTag' = Head(mainQ).id
  /\ loud' = (loud /\ Head(mainQ).id # playbackId)
  /\ UNCHANGED <<restVars, playerVars, thrVars, tickPosted, mainP, mgrVars, modVars,
                 histVars>>

\* line 104: val p = pendingPromise
dv_read ==
  /\ mainPc = "dv_read"
  /\ mainP' = pendingPromise
  /\ mainPc' = "dv_settle"
  /\ UNCHANGED <<restVars, playerVars, thrVars, mainQ, tickPosted, mainTag, mgrVars,
                 modVars, histVars, loud>>

\* lines 105-106: pendingPromise = null; p?.resolve("Playback finished")
dv_settle ==
  /\ mainPc = "dv_settle"
  /\ pendingPromise' = 0
  /\ Settle(mainP, "Playback finished", mainTag)
  /\ mainP' = 0 /\ mainTag' = 0
  /\ mainPc' = "idle"
  /\ UNCHANGED <<restVars, playerVars, thrVars, mainQ, tickPosted, tts,
                 realTimeAudioPlayer, playbackSeq, activePlaybackId,
                 stopping, modVars, promiseSeq, lastCall, session, sent, enqueued,
                 closed, written, released, loud, inits, stops, lastOp, repeated>>

\* ------------------------------------------- splitText, stepwise ---
\* a caller hands a text to generateAndPlay / generateAndSave, which trims
\* it (lines 149-153, 208-212) and, unless it is empty, splits it
st_call ==
  /\ splitPc = "arg"
  /\ trimmedText' = trim(text)
  /\ splitPc' = IF trim(text) = <<>> THEN "EMPTY_TEXT" ELSE "loop"
  /\ UNCHANGED <<playerVars, thrVars, mainVars, mgrVars, modVars,
                 histVars, loud, saveVars, wavVars, chunkVars,
                 text, maxWords, currentIndex, sentences>>

\* lines 264-286: one turn of the while loop
st_turn ==
  /\ splitPc = "loop" /\ currentIndex < Len(words(trimmedText))
  /\ \E t \in {Turn(words(trimmedText), maxWords, currentIndex)} :
       /\ sentences' = Append(sentences, t.sentence)
       /\ currentIndex' = t.next
  /\ UNCHANGED <<playerVars, thrVars, mainVars, mgrVars, modVars,
                 histVars, loud, saveVars, wavVars, chunkVars,
                 text, trimmedText, maxWords, splitPc>>

\* lines 264, 289: the loop ends and the list is returned
st_return ==
  /\ splitPc = "loop" /\ currentIndex >= Len(words(trimmedText))
  /\ splitPc' = "returned"
  /\ UNCHANGED <<playerVars, thrVars, mainVars, mgrVars, modVars,
                 histVars, loud, saveVars, wavVars, chunkVars,
                 text, trimmedText, maxWords, currentIndex, sentences>>

SplitInit ==
  /\ Constructed /\ NoSave /\ NoWav
  /\ text \in Texts /\ maxWords \in 1..MaxMaxWords
  /\ trimmedText = <<>> /\ currentIndex = 0 /\ sentences = <<>>
  /\ splitPc = "arg"

SplitNext == st_call \/ st_turn \/ st_return
SplitSpec == SplitInit /\ [][SplitNext]_vars

\* splitText as straight-line code, over the shorter texts: the thread that
\* called it keeps running
FairTextLen == 3
SplitFairInit == SplitInit /\ Len(text) <= FairTextLen
SplitFairSpec == SplitFairInit /\ [][SplitNext]_vars /\ WF_vars(SplitNext)

\* writeWavPCM16 applied to every short sample sequence
WavInit ==
  /\ Constructed /\ NoSave /\ NoSplit
  /\ floatSamples \in SamplesUpTo(MaxSamples)
  /\ sampleRate \in SampleRates /\ channels \in ChannelNums
  /\ pcm = <<>> /\ out = <<>> /\ wavPc = "arg"

WavNext == wv_pcm \/ wv_write
WavSpec == WavInit /\ [][WavNext]_vars

\* ------------------------------------------------- specifications ---
PlayerSteps ==
  \/ bp_reset \/ bp_clear \/ ee_close \/ ee_chk \/ ee_act
  \/ sp_entry \/ sp_interrupt \/ sp_join \/ sp_release \/ sp_finish
ThreadSteps ==
  \/ thr_loop \/ thr_take \/ thr_acc \/ thr_incR \/ thr_incW \/ thr_write
  \/ thr_decR \/ thr_decW \/ thr_chk \/ thr_act
MainSteps ==
  \/ tick_run \/ tick_repost \/ dv_entry \/ dv_read \/ dv_settle
ModuleSteps ==
  \/ initializeTTS \/ generateAndPlay \/ gp_cancel \/ gp_install \/ gp_gen
  \/ gp_catch \/ gp_reject \/ deinitialize \/ de_resolve \/ de_clear
  \/ de_null

\* the module as the application drives it
Next == ModuleSteps \/ PlayerSteps \/ ThreadSteps \/ MainSteps
Spec == Init /\ [][Next]_vars

\* the engine alone, its public methods called in any order
ApiSteps ==
  \/ api_begin \/ api_enqueue \/ api_end \/ api_stop \/ api_start
PlayerNext == ApiSteps \/ PlayerSteps \/ ThreadSteps \/ MainSteps
PlayerSpec == Init /\ [][PlayerNext]_vars

\* the engine alone during one lifetime, fed audio of any rate
RatePlays == 1
RateNext ==
  \/ (playbackSeq < RatePlays /\ api_begin) \/ api_enqueueAny \/ eq_check
  \/ api_end \/ (stops < 1 /\ api_stop) \/ (inits < 1 /\ api_start)
  \/ PlayerSteps \/ ThreadSteps \/ MainSteps
RateSpec == Init /\ [][RateNext]_vars

\* the module as an application drives it that may call initializeTTS again
\* without a deinitialize in between
ReinitPlays == 1
ReinitNext ==
  \/ initializeTTS \/ initializeTTS_again
  \/ (promiseSeq < ReinitPlays /\ generateAndPlay)
  \/ (stops < 1 /\ deinitialize)
  \/ gp_cancel \/ gp_install \/ gp_gen \/ gp_catch \/ gp_reject
  \/ de_resolve \/ de_clear \/ de_null
  \/ PlayerSteps \/ ThreadSteps \/ MainSteps
ReinitSpec == Init /\ [][ReinitNext]_vars

\* the module during one engine lifetime, with texts of several chunks
StreamChunks == 2
StreamNext ==
  \/ generateAndPlayOf(StreamChunks)
  \/ (inits < 1 /\ initializeTTS) \/ (stops < 1 /\ deinitialize)
  \/ gp_cancel \/ gp_install \/ gp_gen \/ gp_catch \/ gp_reject
  \/ de_resolve \/ de_clear \/ de_null
  \/ PlayerSteps \/ ThreadSteps \/ MainSteps
StreamSpec == Init /\ [][StreamNext]_vars

\* the same, the audio of a chunk being of any length
PeakPlays == 1
PeakNext ==
  \/ (promiseSeq < PeakPlays /\ generateAndPlayOf(StreamChunks))
  \/ (inits < 1 /\ initializeTTS) \/ (stops < 1 /\ deinitialize)
  \/ gp_cancel \/ gp_install \/ gp_gen \/ gp_catch \/ gp_reject
  \/ de_resolve \/ de_clear \/ de_null
  \/ PlayerSteps \/ MainSteps
  \/ thr_loop \/ thr_take \/ thr_accAny \/ thr_incR \/ thr_incW \/ thr_write
  \/ thr_decR \/ thr_decW \/ thr_chk \/ thr_act
PeakSpec == Init /\ [][PeakNext]_vars

\* the module with generateAndSave: one engine lifetime at a time, one play
\* request, saves running beside it
SavePlays == 1
SaveSteps ==
  \/ generateAndSave \/ sv_ui
  \/ \E q \in Saves : sv_gen(q) \/ sv_file(q)
SaveNext ==
  \/ (promiseSeq < SavePlays /\ generateAndPlay)
  \/ initializeTTS \/ gp_cancel \/ gp_install \/ gp_gen \/ gp_catch
  \/ gp_reject \/ deinitialize \/ de_resolve \/ de_clear \/ de_null
  \/ PlayerSteps \/ ThreadSteps \/ MainSteps
  \/ SaveSteps
SaveSpec == Init /\ [][SaveNext]_vars


\* ----------------------------------------------------- properties ---
\* a promise generateAndPlay accepted, and one of them not settled yet
Accepted(p) == session[p] # 0
Pending(p)  == Accepted(p) /\ settled[p] = <<>>

\* finished sentinels maybeSendCompletion posted for session s, and all
NaturalSent(s) == sent[s].end + sent[s].drain
TotalSent(s)   == NaturalSent(s) + sent[s].stop

\* every chunk enqueued for session s has been written to the device
AllWritten(s) == \A k \in enqueued[s] : <<s, k>> \in written

\* nothing is left to run but a new call: the caller has returned, the
\* playback thread is blocked on the empty queue (or has ended) and the
\* main looper has handled every sentinel
Quiescent ==
  /\ modPc = "idle" /\ mainPc = "idle" /\ mainQ = <<>>
  /\ \/ thrPc = "take" /\ audioQueue = <<>> /\ ~interrupted
     \/ thrPc \in {"none", "dead"}

\* C1: a finished sentinel of maybeSendCompletion is posted for a session
\* only when the device write of every chunk enqueued for that session has
\* completed.
C1_SentinelAfterWrites ==
  [][\A s \in Sessions :
       NaturalSent(s)' > NaturalSent(s) => AllWritten(s)]_vars

\* C2: maybeSendCompletion posts the finished sentinel exactly once for a
\* request: never twice, and not zero times once endEnqueue has returned and
\* the queue of the still current request has drained.
C2_ExactlyOneSentinel ==
  \A s \in Sessions :
    /\ NaturalSent(s) <= 1
    /\ (closed[s] /\ playbackId = s /\ isRunning /\ modPc = "idle"
        /\ thrPc = "take" /\ audioQueue = <<>>) => NaturalSent(s) >= 1

\* C3: every promise of an accepted generateAndPlay is settled at most once.
C3_SettledAtMostOnce ==
  \A p \in Promises : Accepted(p) => Len(settled[p]) <= 1

\* C4: every accepted generateAndPlay is eventually settled; in the form a
\* finite run decides: once nothing is left to run, no accepted promise is
\* still unsettled.
C4_SettledWhenQuiescent ==
  Quiescent => \A p \in Promises : ~Pending(p)

\* C5: at no time are two play continuations pending simultaneously.
C5_AtMostOnePending ==
  Cardinality({p \in Promises : Pending(p)}) <= 1

\* C6: a promise is resolved with "Playback finished" only by the sentinel
\* the engine emitted for the promise's own session.
C6_FinishedByOwnSentinel ==
  \A p \in Promises : \A i \in 1..Len(settled[p]) :
    settled[p][i].kind = "Playback finished" =>
      settled[p][i].tag = session[p]

\* C7: when stopPlayer() returns from a call made during a request, exactly
\* one finished signal has been posted for that request in total, and the
\* device is released.
C7_StopExactlyOneSignal ==
  [][(modPc \in {"sp_entry", "sp_finish"} /\ ~repeated
      /\ modPc' \notin {"sp_entry", "sp_interrupt", "sp_finish"}
      /\ playbackId >= 1)
     => (TotalSent(playbackId)' = 1 /\ ~audioTrack')]_vars

\* C7 (as amended): every stopPlayer() call posts exactly one finished
\* signal of its own, at its return, on top of whatever natural completion
\* posted for the request, and returns with the device released.
StopPcs == {"sp_entry", "sp_interrupt", "sp_join", "sp_release", "sp_finish"}
C7_StopPostsOneSignal ==
  [][(modPc \in StopPcs /\ modPc' # modPc)
     => IF modPc' \in StopPcs
        THEN mainQ' = mainQ /\ sent' = sent
        ELSE /\ mainQ' = Append(mainQ, [id |-> playbackId, by |-> "stop"])
             /\ TotalSent(playbackId)' = TotalSent(playbackId) + 1
             /\ ~audioTrack' /\ ~isRunning']_vars

\* a first stopPlayer() has returned on a running player whose request had
\* completed naturally: the request has its own sentinel and the one of
\* stopPlayer
C7_Witness ==
  /\ modPc = "idle" /\ lastOp = "stop" /\ ~repeated /\ playbackId >= 1
  /\ NaturalSent(playbackId) >= 1 /\ sent[playbackId].stop = 1
  /\ released >= 1 /\ ~audioTrack

\* C8: a stopPlayer() that directly follows another stopPlayer() posts no
\* finished sentinel and changes no field of the engine.
C8_SecondStopNoOp ==
  [][(repeated /\ modOp = "api" /\ modPc' # modPc)
     => (sent' = sent /\ mainQ' = mainQ /\ playerVars' = playerVars)]_vars

\* C8 (as amended): a stopPlayer() that directly follows another one returns
\* at once, changes no field of the engine and starts no thread, and posts
\* exactly one further finished sentinel.
C8_SecondStopOnlyPosts ==
  [][(repeated /\ modOp = "api" /\ modPc' # modPc)
     => /\ modPc' = "idle"
        /\ playerVars' = playerVars /\ thrVars' = thrVars
        /\ tickPosted' = tickPosted
        /\ mainQ' = Append(mainQ, [id |-> playbackId, by |-> "stop"])]_vars

\* a second stopPlayer() has returned on a player the first one had to stop
C8_Witness ==
  /\ repeated /\ modPc = "idle" /\ lastOp = "stop" /\ stops >= 2
  /\ released >= 1 /\ ~isRunning /\ sent[playbackId].stop >= 2

\* C9: from the moment deinitialize calls stopPlayer until it returns, no
\* play continuation is pending.
C9_DeinitLeavesNonePending ==
  (modOp = "deinit" /\ modPc \notin {"de_resolve", "de_clear"})
    => \A p \in Promises : ~Pending(p)

\* C10: a deinitialize that directly follows a deinitialize settles no
\* promise, posts no sentinel, touches no engine, and returns with no player,
\* no engine and no pending continuation.
C10_SecondDeinitNoOp ==
  [][(repeated' /\ modOp' \in {"deinit", "none"} /\ modPc' # modPc
      /\ (modOp = "deinit" \/ modOp' = "deinit"))
     => /\ settled' = settled /\ sent' = sent /\ mainQ' = mainQ
        /\ playerVars' = playerVars /\ thrVars' = thrVars
        /\ ~realTimeAudioPlayer' /\ ~tts' /\ pendingPromise' = 0
        /\ (modPc' = "idle" => ~stopping')]_vars

\* a deinitialize that directly followed a deinitialize has returned
C10_Witness ==
  repeated /\ modPc = "idle" /\ lastOp = "stop" /\ stops >= 2 /\ inits >= 1

\* a generateAndPlay / generateAndSave call is made in this step
PlayCalled == promiseSeq' = promiseSeq + 1
SaveCalled == saveSeq' = saveSeq + 1

\* the step settles the promise of the call with a rejection and nothing else
RejectedWith(code) ==
  /\ PlayCalled =>
       /\ settled' = [settled EXCEPT ![promiseSeq'] =
                        <<[kind |-> code, tag |-> 0]>>]
       /\ saveSettled' = saveSettled
  /\ SaveCalled =>
       /\ saveSettled' = [saveSettled EXCEPT ![saveSeq'] = <<code>>]
       /\ settled' = settled

\* the step leaves the module, the player, every thread and the file system
\* as they were: no session id, no pending promise installed or settled, no
\* beginPlayback, no synthesis call, no worker thread, no file
StateUntouched ==
  /\ playerVars' = playerVars /\ thrVars' = thrVars /\ mainVars' = mainVars
  /\ mgrVars' = mgrVars /\ modVars' = modVars
  /\ session' = session /\ sent' = sent /\ enqueued' = enqueued
  /\ closed' = closed /\ written' = written /\ released' = released
  /\ savePc' = savePc /\ saveIdx' = saveIdx /\ saveN' = saveN
  /\ uiQ' = uiQ /\ files' = files

\* every player initializeTTS created has been released by deinitialize (or
\* none was created yet); otherwise the module is initialized
Uninitialized == released = inits

\* C11: generateAndPlay and generateAndSave called with a text that is blank
\* after trimming reject with EMPTY_TEXT, whatever else is wrong, and change
\* no state.
C11_BlankRejectedFirst ==
  [][((PlayCalled \/ SaveCalled) /\ trim(lastCall'.text) = <<>>)
     => (RejectedWith("EMPTY_TEXT") /\ StateUntouched)]_vars

\* a blank generateAndSave was rejected while a play request was pending on
\* an initialized module
C11_Witness ==
  /\ lastCall.op = "generateAndSave" /\ lastCall.text = <<" ">>
  /\ saveSettled[1] = <<"EMPTY_TEXT">>
  /\ ~Uninitialized /\ \E p \in Promises : Pending(p)

\* C12: generateAndPlay and generateAndSave called with a non-blank text
\* before initializeTTS or after deinitialize reject with NOT_INITIALIZED and
\* change no state.
C12_UninitializedRejected ==
  [][((PlayCalled \/ SaveCalled) /\ trim(lastCall'.text) # <<>>
      /\ Uninitialized)
     => (RejectedWith("NOT_INITIALIZED") /\ StateUntouched)]_vars

\* generateAndSave of a word was rejected after initializeTTS and deinitialize
C12_Witness ==
  /\ lastCall.op = "generateAndSave" /\ lastCall.text = <<"a">>
  /\ saveSettled[1] = <<"NOT_INITIALIZED">>
  /\ inits >= 1 /\ stops >= 1 /\ Uninitialized /\ modPc = "idle"

\* C13: generateAndSave on an initialized engine with a fileType other than
\* "wav" rejects with UNSUPPORTED_FILETYPE and changes no state; an omitted
\* fileType is accepted as "wav" is.
C13_NonWavRejected ==
  [][(SaveCalled /\ trim(lastCall'.text) # <<>> /\ ~Uninitialized)
     => IF orElse(lastCall'.fileType, wav) # wav
        THEN RejectedWith("UNSUPPORTED_FILETYPE") /\ StateUntouched
        ELSE savePc'[saveSeq'] = "sv_gen" /\ saveSettled' = saveSettled]_vars

\* C13 (as amended): the fileType is compared ignoring letter case: a value
\* that is not "wav" in any case is rejected with UNSUPPORTED_FILETYPE and
\* changes no state; "wav" in any case, and an omitted fileType, start the
\* save.
C13_NonWavIgnoringCaseRejected ==
  [][(SaveCalled /\ trim(lastCall'.text) # <<>> /\ ~Uninitialized)
     => IF lowercase(orElse(lastCall'.fileType, wav)) # wav
        THEN RejectedWith("UNSUPPORTED_FILETYPE") /\ StateUntouched
        ELSE savePc'[saveSeq'] = "sv_gen" /\ saveSettled' = saveSettled]_vars

\* generateAndSave("a", "mp3") was rejected on an initialized engine
C13_Witness ==
  /\ lastCall.op = "generateAndSave" /\ lastCall.text = <<"a">>
  /\ lastCall.fileType = <<"m", "p", "3">>
  /\ saveSettled[1] = <<"UNSUPPORTED_FILETYPE">>
  /\ ~Uninitialized /\ files = 0 /\ savePc[1] = "none"

\* a synthesis call of generateAndPlay's loop returned no audio or threw:
\* the loop took a turn and enqueued nothing
SynthFailed ==
  modPc = "gp_gen" /\ modIdx' = modIdx + 1 /\ enqueued' = enqueued

\* C14: in generateAndPlay a failed synthesis call aborts the request: the
\* loop is left for the catch block (no later chunk is synthesized or
\* enqueued), the promise is rejected with GENERATION_ERROR, and the chunks
\* already handed to the player stay in its queue.
C14_FailureAborts ==
  [][/\ SynthFailed => (modPc' = "gp_catch" /\ audioQueue' = audioQueue)
     /\ (modPc = "gp_catch" /\ modPc' # modPc)
          => (modPc' = "gp_reject" /\ audioQueue' = audioQueue)
     /\ (modPc = "gp_reject" /\ modPc' # modPc)
          => /\ settled' = [settled EXCEPT ![modPromise] =
                  Append(@, [kind |-> "GENERATION_ERROR", tag |-> 0])]
             /\ audioQueue' = audioQueue]_vars

\* promise p belongs to the request accepted next after one that was rejected
\* with GENERATION_ERROR
AfterFailure(p) ==
  /\ p > 1 /\ Accepted(p) /\ Accepted(p - 1)
  /\ \E i \in 1..Len(settled[p - 1]) :
       settled[p - 1][i].kind = "GENERATION_ERROR"

\* C15: the request accepted after one that failed mid-stream gets at most
\* one finished sentinel, posted when its own chunks are written, and, once
\* it has been closed and nothing is left to run, exactly one and a promise
\* resolved by it.
C15_CleanAfterFailure ==
  \A p \in Promises :
    AfterFailure(p) =>
      LET s == session[p]
      IN /\ NaturalSent(s) <= 1
         /\ NaturalSent(s) = 1 => AllWritten(s)
         /\ (Quiescent /\ closed[s] /\ stops = 0)
              => /\ NaturalSent(s) = 1
                 /\ settled[p] = <<[kind |-> "Playback finished", tag |-> s]>>

\* the chunks of one request stand in the queue in segment order
QueueOrdered ==
  \A i, j \in 1..Len(audioQueue) :
    (i < j /\ audioQueue[i][1] = audioQueue[j][1])
      => audioQueue[i][2] < audioQueue[j][2]

RECURSIVE wordsOfAll(_)
wordsOfAll(chunks) ==
  IF chunks = <<>> THEN <<>>
  ELSE words(chunks[1]) \o wordsOfAll(Tail(chunks))

\* C16: the chunks splitText returns, concatenated, carry exactly the
\* whitespace-separated words of its input, in order, none dropped, cut,
\* duplicated or reordered.
C16_WordsPreserved ==
  splitPc = "returned" => wordsOfAll(sentences) = words(trimmedText)

\* C17: for a non-blank text and maxWords >= 1 splitText returns at least one
\* chunk, no chunk is empty and no chunk has more than maxWords words.
C17_ChunksBounded ==
  splitPc = "returned" =>
    /\ Len(sentences) >= 1
    /\ \A i \in 1..Len(sentences) :
         /\ sentences[i] # <<>>
         /\ Len(words(sentences[i])) <= maxWords

\* the finished sentinels of session s the telemetry callback has received:
\* the posted ones that are no longer waiting in the main queue
RECURSIVE Waiting(_, _)
Waiting(q, s) ==
  IF q = <<>> THEN 0
  ELSE (IF Head(q).id = s THEN 1 ELSE 0) + Waiting(Tail(q), s)

Delivered(s) == TotalSent(s) - Waiting(mainQ, s)

\* this step is a timer tick that hands a value to the telemetry callback:
\* a polled loudness value, or the neutral 0 when sentCompletion is false
TickDelivers ==
  /\ mainPc = "idle" /\ mainPc' = "tk_repost"
  /\ volumesQueue # <<>> \/ ~sentCompletion

\* this step hands the finished sentinel of the current request, sent by the
\* playback path and not by a stop, to the telemetry callback
FinishedDelivered ==
  /\ mainPc = "idle" /\ mainQ # <<>> /\ Len(mainQ') < Len(mainQ)
  /\ Head(mainQ).id = playbackId /\ playbackId >= 1
  /\ Head(mainQ).by # "stop"

\* C18: when the finished sentinel of a request whose audio holds at least
\* one full analysis window reaches the telemetry callback, a loudness value
\* was delivered before it, and once the request has run to completion its
\* promise is resolved.
C18_LoudnessBeforeFinished ==
  [][/\ (FinishedDelivered /\ Windows(ChunkSamples) >= 1
          /\ enqueued[playbackId] # {}) => loud
     /\ \A p \in Promises :
          (/\ Accepted(p) /\ enqueued[session[p]] # {}
           /\ Quiescent' /\ closed'[session[p]] /\ stops' = 0
           /\ session[p] = playbackId')
            => settled'[p] =
                 <<[kind |-> "Playback finished", tag |-> session[p]]>>]_vars

\* C19: once the finished sentinel of the current request has reached the
\* telemetry callback, and until the next beginPlayback, no timer tick
\* delivers a loudness value or a neutral 0.
C19_SilentAfterFinished ==
  [][(playbackId >= 1 /\ Delivered(playbackId) >= 1) => ~TickDelivers]_vars

\* reading a WAV document back: the little-endian field of w bytes at
\* offset off (counted from 0), and the four characters at an offset
RECURSIVE leField(_, _, _)
leField(bytes, off, w) ==
  IF w = 0 THEN 0
  ELSE bytes[off + 1] + 256 * leField(bytes, off + 1, w - 1)

tagAt(bytes, off) == SubSeq(bytes, off + 1, off + 4)

\* C21: the file written for n samples at rate r and c channels is a 44-byte
\* header reading back as PCM tag 1, c channels, rate r, 16 bits, byte rate
\* r*c*2, block align c*2, data size 2n, RIFF size 36+2n, followed by exactly
\* 2n payload bytes.
C21_WavHeaderReadsBack ==
  wavPc = "written" =>
    LET n == Len(floatSamples)
    IN /\ Len(out) = 44 + 2 * n
       /\ tagAt(out, 0) = wStr(<<"R", "I", "F", "F">>)
       /\ leField(out, 4, 4) = 36 + 2 * n
       /\ tagAt(out, 8) = wStr(<<"W", "A", "V", "E">>)
       /\ tagAt(out, 12) = wStr(<<"f", "m", "t", " ">>)
       /\ leField(out, 16, 4) = 16
       /\ leField(out, 20, 2) = 1
       /\ leField(out, 22, 2) = channels
       /\ leField(out, 24, 4) = sampleRate
       /\ leField(out, 28, 4) = sampleRate * channels * 2
       /\ leField(out, 32, 2) = channels * 2
       /\ leField(out, 34, 2) = 16
       /\ tagAt(out, 36) = wStr(<<"d", "a", "t", "a">>)
       /\ leField(out, 40, 4) = 2 * n
       /\ SubSeq(out, 45, Len(out)) = pcm /\ Len(pcm) = 2 * n

\* three samples at 22050 Hz mono have been written
C21_Witness ==
  /\ wavPc = "written" /\ Len(floatSamples) = 3
  /\ sampleRate = 22050 /\ channels = 1

\* the playback thread exists and has not ended
ThreadAlive == thrPc \notin {"none", "dead"}

\* this step is start() finding the player stopped (lines 57, 94-118)
Starts == ~isRunning /\ isRunning'

\* C22: over any sequence of start, beginPlayback and stopPlayer calls on one
\* player at most one playback thread is alive and at most one timer tick is
\* scheduled, and beginPlayback on a stopped player leaves it running with
\* exactly one of each.
C22_OneThreadOneTimer ==
  [][/\ tickPosted' <= 1
     /\ Starts => ~ThreadAlive
     /\ (modPc = "bp_clear" /\ Starts) => (ThreadAlive' /\ tickPosted' = 1)]_vars

\* this step is stopPlayer() returning to its caller
StopReturns == modPc \in StopPcs /\ modPc' \notin StopPcs

\* C23: in stopPlayer the playback thread has ended before the device is
\* stopped and released, no device write is in progress on a released
\* device, the buffers are cleared only after the release, and the device is
\* released when stopPlayer returns.
C23_JoinBeforeRelease ==
  [][/\ modPc = "sp_release" => ~ThreadAlive
     /\ modPc = "sp_finish" => (~ThreadAlive /\ ~audioTrack)
     /\ thrPc' = "write" => audioTrack'
     /\ StopReturns => (~audioTrack' /\ ~ThreadAlive')]_vars

\* stopPlayer has released the device after waiting for a thread that was
\* past take() when it was interrupted and wrote its chunk
C23_Witness ==
  /\ modPc = "sp_finish" /\ interrupted /\ written # {}
  /\ ~audioTrack /\ thrPc = "dead"

\* C24: when stopPlayer returns, the audio queue, the accumulation buffer and
\* the queue of pending loudness values are all empty.
C24_StopLeavesBuffersEmpty ==
  [][StopReturns => /\ audioQueue' = <<>>
                    /\ accumulationBuffer' = <<>>
                    /\ volumesQueue' = <<>>]_vars

\* the playback thread is between the increment of line 108 and the
\* decrement of line 110: a device write is in flight
WriteInFlight == thrPc \in {"write", "decR", "decW"}

\* C25: pendingWrites is always 0 or 1, and it is 1 exactly while a device
\* write is in flight, also when beginPlayback starts a newer request while
\* the previous one is draining.
C25_PendingWritesExact ==
  /\ pendingWrites \in {0, 1}
  /\ pendingWrites = 1 <=> WriteInFlight

\* this step is the main thread beginning to handle a finished sentinel that
\* stopPlayer posted (lines 177, 199)
StopSentinelHandled ==
  /\ mainPc = "idle" /\ mainQ # <<>> /\ Len(mainQ') < Len(mainQ)
  /\ Head(mainQ).by = "stop"

\* C26: whenever the sentinel stopPlayer posted during deinitialize is
\* handled on the main thread, stopping is still true, so the handler
\* returns at line 102 and resolves no promise.
C26_StopSentinelIgnored ==
  [][StopSentinelHandled => (stopping /\ mainPc' = "idle")]_vars

\* the playback thread holds a chunk that was enqueued for a request older
\* than the one beginPlayback has installed and returned from
HoldsStaleChunk ==
  /\ thrSamples # NoChunk /\ thrSamples[1] < playbackId
  /\ modPc # "bp_clear"

\* C27: once beginPlayback(id) has returned, no chunk enqueued for an earlier
\* request is added to the accumulation buffer or written to the device,
\* even if the thread had taken it before beginPlayback ran.
C27_NoStaleAudio ==
  [][HoldsStaleChunk =>
       /\ ~(thrPc = "acc" /\ thrPc' # "acc")
       /\ ~(thrPc = "incW" /\ thrPc' = "write")]_vars

\* this step is a timer tick of a running player (line 41 passed)
TickRuns == mainPc = "idle" /\ mainPc' = "tk_repost"

\* q continues p: nothing was taken out of p and nothing put before it
IsPrefix(p, q) == Len(p) <= Len(q) /\ SubSeq(q, 1, Len(p)) = p

\* this step is the playback thread accumulating the chunk it holds
Accumulates == thrPc = "acc" /\ thrPc' # "acc"

\* C28: a tick of a running player delivers the oldest pending loudness
\* value if there is one, else a neutral 0 if finished has not been
\* signalled for the current request, else nothing; a loudness value is
\* delivered at most once and the values are delivered in the order they
\* were produced.
C28_TickDeliversOldest ==
  [][/\ TickRuns =>
          IF volumesQueue # <<>>
          THEN volumesQueue' = Tail(volumesQueue)
          ELSE playbackId >= 1 =>
                 (~sentCompletion <=> TotalSent(playbackId) = 0)
     /\ ~TickRuns =>
          (volumesQueue' = <<>> \/ IsPrefix(volumesQueue, volumesQueue'))
     /\ Accumulates => thrSamples \notin written]_vars

\* C29: while the player is running a timer tick is always scheduled or
\* executing, and a scheduled tick can run as soon as the main looper is
\* free, whatever the playback thread is doing (blocked on the empty queue
\* or inside a device write).
C29_TimerKeepsRunning ==
  /\ isRunning => (tickPosted >= 1 \/ mainPc = "tk_repost")
  /\ (tickPosted >= 1 /\ mainPc = "idle") => ENABLED tick_run

\* a tick has delivered a loudness value while the playback thread is
\* inside the device write
C29_Witness ==
  /\ isRunning /\ mainPc = "tk_repost" /\ loud
  /\ thrPc = "write"

\* this step is endEnqueue's maybeSendCompletion evaluating the completion
\* condition (lines 151-156) with the queue empty and no write in flight
EndEnqueueOnDrained ==
  /\ modPc = "ee_chk" /\ modPc' # "ee_chk"
  /\ audioQueue = <<>> /\ ~WriteInFlight

\* C30: endEnqueue called with the queue empty and no write in flight emits
\* the finished sentinel at once (unless the request's sentinel was already
\* emitted), so a request whose synthesis produced no audio is resolved
\* once everything has come to rest.
C30_EndEnqueueCompletes ==
  [][/\ EndEnqueueOnDrained =>
          (modPc' = "ee_act" \/ NaturalSent(CurSession) >= 1)
     /\ \A p \in Promises :
          (/\ Accepted(p) /\ session[p] = playbackId'
           /\ closed'[session[p]] /\ enqueued'[session[p]] = {}
           /\ Quiescent' /\ stops' = 0)
            => /\ settled'[p] # <<>>
               /\ settled'[p][1].kind = "Playback finished"]_vars

\* ------------------------------------------------ playback ids ---
\* C35: session ids are strictly increasing and unique: an accepted
\* generateAndPlay increments playbackSeq by exactly one and records the new
\* value as activePlaybackId and as the id of its request, no other step
\* (a rejected call among them) changes either, and activePlaybackId equals
\* playbackSeq throughout. The step from gp_install is the one that
\* allocates the id (lines 166-168)
C35_SessionIdsIncrease ==
  /\ activePlaybackId = playbackSeq
  /\ [][ /\ activePlaybackId' = playbackSeq'
         /\ IF modPc = "gp_install" /\ modPc' = "bp_reset"
            THEN /\ playbackSeq' = playbackSeq + 1
                 /\ session'[modPromise] = playbackSeq'
                 /\ \A p \in Promises :
                      Accepted(p) => session[p] < session'[modPromise]
            ELSE UNCHANGED <<playbackSeq, activePlaybackId>> ]_vars

\* two requests were accepted, one after the other
C35_Witness ==
  /\ playbackSeq = 2 /\ activePlaybackId = 2
  /\ session[1] = 1 /\ session[2] = 2

\* ------------------------------------------- engine lifetime ---
\* C39: the synthesis engine is never invoked after deinitialize has
\* released it. The field tts holds an engine from its creation (line 140)
\* until deinitialize releases it and nulls the field (lines 200-201), and
\* generateAndSave captures a non-null engine, so a generate call of its
\* worker thread (line 236, on the engine captured at line 214) made while
\* tts is null is a call on a released engine
C39_NoGenerateAfterRelease ==
  [][(\E q \in Saves :
        /\ savePc[q] = "sv_gen"
        /\ <<savePc'[q], saveIdx'[q]>> # <<savePc[q], saveIdx[q]>>)
     => tts]_vars

C37_SplitTerminates ==
  /\ [][(splitPc = "loop" /\ sentences' # sentences)
          => currentIndex' >= currentIndex + 1]_vars
  /\ <>(splitPc \in {"returned", "EMPTY_TEXT"})

\* "a b" with maxWords = 1 came back after two turns
C37_Witness ==
  /\ splitPc = "returned" /\ maxWords = 1 /\ currentIndex = 2
  /\ trimmedText = <<"a", " ", "b">>
  /\ sentences = << <<"a">>, <<"b">> >>

RECURSIVE concat(_)
concat(ws) == IF ws = <<>> THEN <<>> ELSE Head(ws) \o concat(Tail(ws))

\* C34: after each accumulation step the accumulation buffer holds fewer
\* samples than one analysis window, and the step pushes exactly one
\* loudness value per full window sliced off the front, each computed from
\* one window of consecutive samples in arrival order: the values pushed,
\* laid end to end and followed by what stays in the buffer, are the samples
\* that were in the buffer followed by the samples of the chunk
C34_WindowsSliced ==
  [][Accumulates =>
       LET added  == SubSeq(volumesQueue', Len(volumesQueue) + 1,
                            Len(volumesQueue'))
           all    == concat(added) \o accumulationBuffer'
           TheNew == SubSeq(all, Len(accumulationBuffer) + 1, Len(all))
       IN /\ Len(accumulationBuffer') < samplesPerChunk
          /\ IsPrefix(volumesQueue, volumesQueue')
          /\ \A i \in DOMAIN added : Len(added[i]) = samplesPerChunk
          /\ IsPrefix(accumulationBuffer, all)
          /\ TheNew = asList(thrSamples, samplesSize')]_vars

\* a chunk of three samples was followed by a chunk of two: the last value
\* pushed is the window of the third sample of the first chunk and the first
\* of the second, and the second sample of the second chunk waits in the
\* buffer
C34_Witness ==
  /\ thrPc = "incR"
  /\ accumulationBuffer = << <<1, 2, 2>> >>
  /\ volumesQueue # <<>>
  /\ volumesQueue[Len(volumesQueue)] = << <<1, 1, 3>>, <<1, 2, 1>> >>

\* C33: the accumulation buffer is modified only by the playback thread: no
\* operation executed by the caller (beginPlayback, enqueueAudioData,
\* endEnqueue, stopPlayer) and no timer tick changes it. The steps of the
\* thread that touch the buffer are the accumulation of lines 104-107 and
\* the clear of its own maybeSendCompletion (line 164)
C33_BufferOwnedByThread ==
  [][accumulationBuffer' # accumulationBuffer
       => (thrPc \in {"acc", "act"} /\ thrPc' # thrPc)]_vars

\* ------------------------------------------------ sample rate ---
\* C31: enqueueAudioData with a sample rate different from the configured
\* rate is rejected and leaves the state of the player unchanged: the chunk
\* is not appended to the FIFO and enqueueClosed, didSignalFinish and
\* sentCompletion keep their values
C31_MismatchRejected ==
  [][(modPc = "eq_check" /\ sr # playerSampleRate /\ modPc' = "idle")
       => UNCHANGED <<playerVars, enqueued>>]_vars

\* a call with the rate 16000 has returned on a player whose request was
\* closed and completed without audio: nothing is queued and the three flags
\* are still set
C31_Witness ==
  /\ modPc = "idle" /\ sr = 16000 /\ isRunning
  /\ enqueued[playbackId] = {} /\ audioQueue = <<>>
  /\ enqueueClosed /\ didSignalFinish /\ sentCompletion

\* ------------------------------------------------ one player ---
\* C38: at most one AudioPlayer created by the module is running at any
\* time, over any sequence of initializeTTS, generateAndPlay and
\* deinitialize calls, initializeTTS called twice in a row included. The
\* players initializeTTS created and started that stopPlayer has not released
\* each have a live playback thread, a scheduled timer and a device
C38_OnePlayerRunning == inits - released <= 1

====
